---- MODULE Spec2Model ----
(***************************************************************************)
(* Model of the POST /generate-animation handler of wan-animate-airtable.  *)
(* Two variants of the handler exist in the repository: src/server.js      *)
(* (mode/resolution read from the record, video downloaded before the      *)
(* final write, output_video written as an attachment list) and            *)
(* src/unnamed/part_000 (mode/resolution fixed, output_video written as a  *)
(* bare URL).  The variable `variant' selects which one runs.              *)
(*                                                                         *)
(* Every external call (Airtable find/update, Wavespeed submit/poll, the   *)
(* sleep timer, the video download) is one action: the call, its           *)
(* nondeterministic outcome, and the synchronous code that follows it up   *)
(* to the next await.                                                      *)
(***************************************************************************)
EXTENDS Integers, Sequences, FiniteSets, TLC

(***************************************************************************)
(* JavaScript values.  Every value has the same three fields so that any   *)
(* two of them can be compared.                                            *)
(***************************************************************************)
Undef == [t |-> "undef", s |-> "", n |-> 0]

Str(x) == [t |-> "str", s |-> x, n |-> 0]

Num(k) == [t |-> "num", s |-> "", n |-> k]

\* JavaScript truthiness: undefined, "" and 0 are falsy.
Truthy(v) ==
    CASE v.t = "undef" -> FALSE
      [] v.t = "str"   -> v.s # ""
      [] v.t = "num"   -> v.n # 0

\* a || b
OrElse(a, b) == IF Truthy(a) THEN a ELSE b

\* ${v} inside a template literal
Interp(v) ==
    CASE v.t = "undef" -> "undefined"
      [] v.t = "str"   -> v.s
      [] v.t = "num"   -> ToString(v.n)

\* An attachment-like field: absent, or a list of attachments (their urls).
NoAttachments == [present |-> FALSE, urls |-> <<>>]

Attachments(us) == [present |-> TRUE, urls |-> us]

\* field?.[0]?.url
FirstUrl(att) ==
    IF att.present /\ Len(att.urls) > 0 THEN Str(att.urls[1]) ELSE Undef

\* outputs?.[0]
FirstOutput(outs) ==
    IF outs.present /\ Len(outs.urls) > 0 THEN Str(outs.urls[1]) ELSE Undef

\* new Date().toISOString(): the value is never inspected.
Now == "<iso-time>"

(***************************************************************************)
(* Program constants.                                                      *)
(***************************************************************************)
maxAttempts == 120

SleepSeconds == 5

SuccessCode == 200

(***************************************************************************)
(* Bounds of the model.                                                    *)
(***************************************************************************)
\* elapsed = floor((Date.now() - startTime) / 1000) is at least the time
\* slept; MaxJitter bounds how many extra seconds the model lets pass.
MaxJitter == 1

ImageUrl == "http://x/i.png"

VideoUrl == "http://x/v.mp4"

OutUrl == "http://out/video.mp4"

OutUrl2 == "http://out/second.mp4"

\* Identifiers of the records the store holds.
RecordIds == {"recA", "recB"}

\* recordId values a trigger can carry: missing, empty, a record of the
\* store, an identifier that does not resolve.
BodyRecordIds == {Undef, Str(""), Str("recA"), Str("recX")}

AttachmentValues(u) == {NoAttachments, Attachments(<<>>), Attachments(<<u>>)}

PromptValues == {Undef, Str(""), Str("dance")}

SeedValues == {Undef, Num(0), Num(42)}

ModeResolutionValues ==
    {<<Undef, Undef>>, <<Str("move"), Str("720p")>>}

\* The optional fields of a record are read independently of each other:
\* <<prompt, <<mode, resolution>>, seed>>, every value of each in some tuple.
OptionalFieldValues ==
    {<<Undef,        <<Undef, Undef>>,               Undef>>,
     <<Str(""),      <<Str("move"), Str("720p")>>,   Num(0)>>,
     <<Str("dance"), <<Undef, Undef>>,               Num(42)>>,
     <<Str("dance"), <<Str("move"), Str("720p")>>,   Undef>>}

NoVideo == [form |-> "none", url |-> ""]

\* A Job Record as the store holds it before the run.
FreshRecord(img, vid, p, mr, sd) ==
    [input_image  |-> img,
     input_video  |-> vid,
     prompt       |-> p,
     mode         |-> mr[1],
     resolution   |-> mr[2],
     seed         |-> sd,
     status       |-> <<>>,
     job_id       |-> Undef,
     error_log    |-> <<>>,
     output_video |-> NoVideo]

\* The bystander record: no run of the model is triggered for it.
OtherRecord ==
    FreshRecord(Attachments(<<ImageUrl>>), Attachments(<<VideoUrl>>),
                Undef, <<Undef, Undef>>, Undef)

VARIABLES
    variant,        \* "server" (src/server.js) or "part_000"
    body,           \* req.body.recordId
    response,       \* HTTP status sent to the caller, 0 while none is sent
    store,          \* the Airtable table: record id -> fields
    pc,             \* position of the handler
    recordId,       \* const { recordId } = req.body
    inputImage, inputVideo, prompt, mode, resolution, seed,
    submitPayload,  \* the object passed to JSON.stringify
    jobId,
    attempt, completed, elapsed,
    result,         \* the last poll response body
    videoUrl,
    error,          \* error.message of the exception caught
    \* history
    calls,          \* number of external calls issued, per kind
    updates,        \* the update calls issued, in order: <<kind, outcome>>,
                    \* an immediate repetition recorded once
    lastUpdate,     \* the last update call: target, field map, outcome
    jobIdWritten,   \* the update that carries job_id returned successfully
    outputWrites,   \* the update calls issued whose field map has output_video
    submitResponse, \* what the submission call came back with
    lastPoll,       \* outcome of the latest status check
    pollsAtTerminal,\* number of status checks issued when the first one
                    \* returned "completed" or "failed", 0 before that
    shadow,         \* the run's record as its own successful updates alone
                    \* leave it
    parked          \* the other invocation of the handler, suspended at an
                    \* await: its request, position, locals and history

locals == <<recordId, inputImage, inputVideo, prompt, mode, resolution, seed,
            submitPayload, jobId, attempt, completed, elapsed, result,
            videoUrl, error>>

history == <<calls, updates, lastUpdate, jobIdWritten, outputWrites,
             submitResponse, lastPoll,
                   pollsAtTerminal>>

vars == <<variant, body, response, store, pc, locals, history, shadow, parked>>

CallKinds == {"find", "update", "submit", "poll", "sleep", "download"}

Bump(c, k) == [c EXCEPT ![k] = @ + 1]

NoUpdate == [id |-> Undef, fields |-> [f \in {} |-> Undef], ok |-> FALSE]

NoResult == [status |-> Undef, outputs |-> NoAttachments, error |-> Undef]

NoPayload == [k \in {} |-> Undef]

\* What an identifier that does not resolve stands for.
NoRecord == FreshRecord(NoAttachments, NoAttachments, Undef, <<Undef, Undef>>, Undef)

\* No second invocation of the handler.
NoRun == [pc |-> "none"]

NoSubmit == [kind |-> "none", ok |-> FALSE, code |-> Undef, message |-> Undef,
             data |-> "absent", id |-> Undef]

Init ==
    /\ variant \in {"server", "part_000"}
    /\ body \in BodyRecordIds
    /\ response = 0
    /\ \E img \in AttachmentValues(ImageUrl), vid \in AttachmentValues(VideoUrl),
          o \in OptionalFieldValues :
          /\ o[1] \in PromptValues /\ o[2] \in ModeResolutionValues /\ o[3] \in SeedValues
          /\ store = [id \in RecordIds |->
                         IF id = "recA" THEN FreshRecord(img, vid, o[1], o[2], o[3])
                         ELSE OtherRecord]
    /\ pc = "idle"
    /\ recordId = Undef
    /\ inputImage = Undef
    /\ inputVideo = Undef
    /\ prompt = Undef
    /\ mode = Undef
    /\ resolution = Undef
    /\ seed = Undef
    /\ submitPayload = NoPayload
    /\ jobId = Undef
    /\ attempt = 0
    /\ completed = FALSE
    /\ elapsed = 0
    /\ result = NoResult
    /\ videoUrl = Undef
    /\ error = <<>>
    /\ calls = [k \in CallKinds |-> 0]
    /\ updates = <<>>
    /\ lastUpdate = NoUpdate
    /\ jobIdWritten = FALSE
    /\ outputWrites = <<>>
    /\ submitResponse = NoSubmit
    /\ lastPoll = "none"
    /\ pollsAtTerminal = 0
    /\ shadow = IF body.s \in DOMAIN store THEN store[body.s] ELSE NoRecord
    /\ parked = NoRun

(***************************************************************************)
(* The record store.                                                       *)
(***************************************************************************)
\* A key whose value is undefined is dropped when the field map is
\* serialised, so the stored field is left alone.
Carries(fm, f) ==
    /\ f \in DOMAIN fm
    /\ (f = "job_id" => fm[f].t # "undef")

\* update(id, fieldMap) applied as a merge.
Merge(rec, fm) ==
    [f \in DOMAIN rec |-> IF Carries(fm, f) THEN fm[f] ELSE rec[f]]

\* await base(table).update(id, fm) with outcome ok: the store and the
\* history of update calls after it.
AirtableUpdate(id, fm, kind, ok) ==
    /\ store' = IF ok /\ id.s \in DOMAIN store
                THEN [store EXCEPT ![id.s] = Merge(@, fm)]
                ELSE store
    /\ calls' = Bump(calls, "update")
    /\ updates' = IF Len(updates) > 0 /\ updates[Len(updates)] = <<kind, ok>>
                  THEN updates ELSE Append(updates, <<kind, ok>>)
    /\ lastUpdate' = [id |-> id, fields |-> fm, ok |-> ok]
    /\ jobIdWritten' = (jobIdWritten \/ (ok /\ "job_id" \in DOMAIN fm))
    /\ outputWrites' = IF "output_video" \in DOMAIN fm
                       THEN Append(outputWrites, [fields |-> fm, ok |-> ok])
                       ELSE outputWrites

\* An update of a record that does not exist cannot succeed.
UpdateOutcomes(id) == IF id.s \in DOMAIN store THEN {TRUE, FALSE} ELSE {FALSE}

(***************************************************************************)
(* Trigger: lines 27-43 of server.js.                                      *)
(***************************************************************************)
\* Mutant of Trigger: the acknowledgment is not sent before the background
\* work starts.
Trigger_LateAck ==
    /\ pc = "idle"
    /\ recordId' = body
    /\ IF ~Truthy(body)
       THEN /\ response' = 400
            /\ pc' = "rejected"
       ELSE /\ response' = response
            /\ pc' = "find"
    /\ UNCHANGED <<variant, body, store, inputImage, inputVideo, prompt, mode,
                   resolution, seed, submitPayload, jobId, attempt, completed,
                   elapsed, result, videoUrl, error, history>>

Trigger ==
    /\ pc = "idle"
    /\ recordId' = body
    /\ IF ~Truthy(body)
       THEN /\ response' = 400
            /\ pc' = "rejected"
       ELSE /\ response' = 200
            /\ pc' = "find"
    /\ UNCHANGED <<variant, body, store, inputImage, inputVideo, prompt, mode,
                   resolution, seed, submitPayload, jobId, attempt, completed,
                   elapsed, result, videoUrl, error, history>>

\* throw new Error(msg) inside the try block: control goes to the catch.
Throw(msg) ==
    /\ pc' = "catch"
    /\ error' = msg

(***************************************************************************)
(* Fetch and validate: lines 49-69 of server.js, 59-81 of part_000.        *)
(***************************************************************************)
\* const mode = record.fields.mode || 'animate' (server.js:54)
ModeOfServer(fields) == OrElse(fields.mode, Str("animate"))

\* const resolution = record.fields.resolution || '480p' (server.js:55)
ResolutionOfServer(fields) == OrElse(fields.resolution, Str("480p"))

\* const mode = 'animate' (part_000:67)
ModeOfPart000(fields) == Str("animate")

\* const resolution = '720p' (part_000:68)
ResolutionOfPart000(fields) == Str("720p")

\* const prompt = record.fields.prompt || ''
PromptOf(fields) == OrElse(fields.prompt, Str(""))

\* const seed = record.fields.seed || -1
SeedOf(fields) == OrElse(fields.seed, Num(-1))

\* Mutant of ValidationError: the input video is not checked.
ValidationError_ImageOnly(img, vid) ==
    IF ~Truthy(img) THEN <<"No input image found">> ELSE <<>>

\* if (!inputImage) throw ...; if (!inputVideo) throw ...; <<>> when valid.
ValidationError(img, vid) ==
    IF ~Truthy(img) THEN <<"No input image found">>
    ELSE IF ~Truthy(vid) THEN <<"No input video found">>
    ELSE <<>>

FetchRecord ==
    /\ pc = "find"
    /\ calls' = Bump(calls, "find")
    /\ \E found \in (IF recordId.s \in DOMAIN store THEN {TRUE, FALSE} ELSE {FALSE}) :
          IF ~found
          THEN /\ Throw(<<"find failed">>)
               /\ UNCHANGED <<inputImage, inputVideo, prompt, mode, resolution, seed>>
          ELSE LET fields == store[recordId.s] IN
               /\ inputImage' = FirstUrl(fields.input_image)
               /\ inputVideo' = FirstUrl(fields.input_video)
               /\ prompt' = PromptOf(fields)
               /\ mode' = IF variant = "server" THEN ModeOfServer(fields)
                          ELSE ModeOfPart000(fields)
               /\ resolution' = IF variant = "server" THEN ResolutionOfServer(fields)
                                ELSE ResolutionOfPart000(fields)
               /\ seed' = SeedOf(fields)
               /\ IF ValidationError(inputImage', inputVideo') # <<>>
                  THEN Throw(ValidationError(inputImage', inputVideo'))
                  ELSE /\ pc' = "updateGenerating"
                       /\ error' = error
    /\ UNCHANGED <<variant, body, response, store, recordId, submitPayload, jobId,
                   attempt, completed, elapsed, result, videoUrl,
                   updates, lastUpdate, jobIdWritten, outputWrites,
                   submitResponse, lastPoll,
                   pollsAtTerminal>>

(***************************************************************************)
(* Pre-submit status write: lines 72-75 of server.js, 84-87 of part_000.   *)
(***************************************************************************)
GeneratingFields ==
    [status    |-> <<"Generating...">>,
     error_log |-> <<"Started at ", Now, "\nMode: ", Interp(mode),
                     "\nResolution: ", Interp(resolution)>>]

UpdateGenerating ==
    /\ pc = "updateGenerating"
    /\ \E ok \in UpdateOutcomes(recordId) :
          /\ AirtableUpdate(recordId, GeneratingFields, "Generating", ok)
          /\ IF ok
             THEN /\ pc' = "submit"
                  /\ error' = error
             ELSE Throw(<<"update failed">>)
    /\ UNCHANGED <<variant, body, response, recordId, inputImage, inputVideo,
                   prompt, mode, resolution, seed, submitPayload, jobId,
                   attempt, completed, elapsed, result, videoUrl,
                   submitResponse, lastPoll,
                   pollsAtTerminal>>

(***************************************************************************)
(* Submit: lines 79-112 of server.js, 91-124 of part_000.                  *)
(***************************************************************************)
BaseKeys == {"image", "video", "mode", "resolution", "seed"}

BasePayload(img, vid, m, r, sd) ==
    [k \in BaseKeys |->
        CASE k = "image"      -> img
          [] k = "video"      -> vid
          [] k = "mode"       -> m
          [] k = "resolution" -> r
          [] k = "seed"       -> sd]

\* Mutant of BuildPayload: the prompt key is always set.
BuildPayload_AlwaysPrompt(img, vid, m, r, sd, p) ==
    [k \in BaseKeys \cup {"prompt"} |->
        IF k = "prompt" THEN p ELSE BasePayload(img, vid, m, r, sd)[k]]

\* if (prompt) { submitPayload.prompt = prompt; }
BuildPayload(img, vid, m, r, sd, p) ==
    IF Truthy(p)
    THEN [k \in BaseKeys \cup {"prompt"} |->
             IF k = "prompt" THEN p ELSE BasePayload(img, vid, m, r, sd)[k]]
    ELSE BasePayload(img, vid, m, r, sd)

\* What the submission call can come back with: the fetch rejects, the body
\* is not JSON, or a body {code, message?, data?: {id?}} with the HTTP ok flag.
AllSubmitResponses ==
    {[kind |-> "transport", ok |-> FALSE, code |-> Undef, message |-> Undef,
      data |-> "absent", id |-> Undef],
     [kind |-> "badjson", ok |-> FALSE, code |-> Undef, message |-> Undef,
      data |-> "absent", id |-> Undef]}
    \cup
    {[kind |-> "body", ok |-> o, code |-> c, message |-> m, data |-> d[1], id |-> d[2]] :
        o \in BOOLEAN, c \in {Num(200), Num(400), Undef},
        m \in {Undef, Str("Invalid API key")},
        d \in {<<"absent", Undef>>, <<"present", Undef>>, <<"present", Str("job1")>>,
               <<"present", Str("job2")>>}}

\* A success body carries no error message.
SubmitResponses ==
    {r \in AllSubmitResponses : (r.ok /\ r.code = Num(200)) => r.message = Undef}

\* Mutant of SubmitRejected: && in place of ||.
SubmitRejected_And(r) == ~r.ok /\ r.code # Num(SuccessCode)

\* !submitResponse.ok || submitResult.code !== 200
SubmitRejected(r) == ~r.ok \/ r.code # Num(SuccessCode)

Submit ==
    /\ pc = "submit"
    /\ calls' = Bump(calls, "submit")
    /\ submitPayload' = BuildPayload(inputImage, inputVideo, mode, resolution, seed, prompt)
    /\ \E r \in SubmitResponses :
          /\ submitResponse' = r
          /\ CASE r.kind = "transport" ->
                  /\ Throw(<<"fetch failed">>)
                  /\ jobId' = jobId
            [] r.kind = "badjson" ->
                  /\ Throw(<<"invalid json">>)
                  /\ jobId' = jobId
            [] r.kind = "body" /\ SubmitRejected(r) ->
                  /\ Throw(<<"API error: ", Interp(OrElse(r.message, Str("Unknown error")))>>)
                  /\ jobId' = jobId
            [] r.kind = "body" /\ ~SubmitRejected(r) /\ r.data = "absent" ->
                  \* submitResult.data.id with data undefined: TypeError
                  /\ Throw(<<"Cannot read properties of undefined (reading 'id')">>)
                  /\ jobId' = jobId
            [] r.kind = "body" /\ ~SubmitRejected(r) /\ r.data = "present" ->
                  /\ jobId' = r.id
                  /\ pc' = "updateJobId"
                  /\ error' = error
    /\ UNCHANGED <<variant, body, response, store, recordId, inputImage, inputVideo,
                   prompt, mode, resolution, seed, attempt, completed, elapsed,
                   result, videoUrl, updates, lastUpdate, jobIdWritten,
                   outputWrites, lastPoll, pollsAtTerminal>>

(***************************************************************************)
(* Persist job id: lines 115-125 of server.js, 127-137 of part_000.        *)
(***************************************************************************)
ProcessingFields ==
    [job_id    |-> jobId,
     status    |-> <<"Processing...">>,
     error_log |-> <<"Job ID: ", Interp(jobId), "\nSubmitted at ", Now>>]

\* Mutant of UpdateJobId: a failure of the write is swallowed and the run
\* goes on to poll.
UpdateJobId_Swallow ==
    /\ pc = "updateJobId"
    /\ \E ok \in UpdateOutcomes(recordId) :
          AirtableUpdate(recordId, ProcessingFields, "Processing", ok)
    /\ pc' = "while"
    /\ attempt' = 0
    /\ completed' = FALSE
    /\ UNCHANGED <<variant, body, response, recordId, inputImage, inputVideo,
                   prompt, mode, resolution, seed, submitPayload, jobId,
                   elapsed, result, videoUrl, error, submitResponse, lastPoll,
                   pollsAtTerminal>>

UpdateJobId ==
    /\ pc = "updateJobId"
    /\ \E ok \in UpdateOutcomes(recordId) :
          /\ AirtableUpdate(recordId, ProcessingFields, "Processing", ok)
          /\ IF ok
             THEN /\ pc' = "while"
                  /\ error' = error
             ELSE Throw(<<"update failed">>)
    /\ attempt' = 0
    /\ completed' = FALSE
    /\ UNCHANGED <<variant, body, response, recordId, inputImage, inputVideo,
                   prompt, mode, resolution, seed, submitPayload, jobId,
                   elapsed, result, videoUrl, submitResponse, lastPoll,
                   pollsAtTerminal>>

(***************************************************************************)
(* Poll loop: lines 127-187 of server.js, 139-192 of part_000.             *)
(***************************************************************************)
\* Mutant of LoopContinues: <= in place of <.
LoopContinues_OffByOne(a, c) == a <= maxAttempts /\ ~c

\* while (attempt < maxAttempts && !completed)
LoopContinues(a, c) == a < maxAttempts /\ ~c

\* Mutant of Sleep: the timer promise is never resolved.
Sleep_NeverResolves ==
    /\ pc = "while"
    /\ attempt < maxAttempts /\ ~completed
    /\ attempt' = attempt + 1
    /\ pc' = "sleeping"
    /\ UNCHANGED <<variant, body, response, store, recordId, inputImage, inputVideo,
                   prompt, mode, resolution, seed, submitPayload, jobId,
                   completed, elapsed, result, videoUrl, error, history>>

\* Mutant of Sleep: the progress write of the iteration is skipped.
Sleep_NoProgress ==
    /\ pc = "while"
    /\ attempt < maxAttempts /\ ~completed
    /\ attempt' = attempt + 1
    /\ calls' = Bump(calls, "sleep")
    /\ \E e \in (elapsed + SleepSeconds)..(SleepSeconds * attempt' + MaxJitter) :
          elapsed' = e
    /\ pc' = "poll"
    /\ UNCHANGED <<variant, body, response, store, recordId, inputImage, inputVideo,
                   prompt, mode, resolution, seed, submitPayload, jobId,
                   completed, result, videoUrl, error, updates, lastUpdate,
                   jobIdWritten, outputWrites, submitResponse, lastPoll,
                   pollsAtTerminal>>

\* attempt++; await sleep(5000); elapsed = floor((Date.now() - startTime) / 1000)
Sleep ==
    /\ pc = "while"
    /\ LoopContinues(attempt, completed)
    /\ attempt' = attempt + 1
    /\ calls' = Bump(calls, "sleep")
    /\ \E e \in (elapsed + SleepSeconds)..(SleepSeconds * attempt' + MaxJitter) :
          elapsed' = e
    /\ pc' = "updateProgress"
    /\ UNCHANGED <<variant, body, response, store, recordId, inputImage, inputVideo,
                   prompt, mode, resolution, seed, submitPayload, jobId,
                   completed, result, videoUrl, error, updates, lastUpdate,
                   jobIdWritten, outputWrites, submitResponse, lastPoll,
                   pollsAtTerminal>>

\* Mutant of LoopExit: a run that timed out submits the job again.
LoopExit_Resubmit ==
    /\ pc = "while"
    /\ ~(attempt < maxAttempts /\ ~completed)
    /\ pc' = IF ~completed THEN "submit" ELSE "done"
    /\ error' = error
    /\ UNCHANGED <<variant, body, response, store, recordId, inputImage, inputVideo,
                   prompt, mode, resolution, seed, submitPayload, jobId,
                   attempt, completed, elapsed, result, videoUrl, history>>

\* Mutant of LoopExit: the test of the completed flag is inverted.
LoopExit_Inverted ==
    /\ pc = "while"
    /\ ~(attempt < maxAttempts /\ ~completed)
    /\ IF completed
       THEN Throw(<<"Timeout: Animation generation took too long">>)
       ELSE /\ pc' = "done"
            /\ error' = error
    /\ UNCHANGED <<variant, body, response, store, recordId, inputImage, inputVideo,
                   prompt, mode, resolution, seed, submitPayload, jobId,
                   attempt, completed, elapsed, result, videoUrl, history>>

\* The loop is left: if (!completed) throw new Error('Timeout: ...')
LoopExit ==
    /\ pc = "while"
    /\ ~LoopContinues(attempt, completed)
    /\ IF ~completed
       THEN Throw(<<"Timeout: Animation generation took too long">>)
       ELSE /\ pc' = "done"
            /\ error' = error
    /\ UNCHANGED <<variant, body, response, store, recordId, inputImage, inputVideo,
                   prompt, mode, resolution, seed, submitPayload, jobId,
                   attempt, completed, elapsed, result, videoUrl, history>>

ProgressFields ==
    [status    |-> <<"Generating... ", ToString(elapsed), "s elapsed">>,
     error_log |-> <<"Job ID: ", Interp(jobId), "\nProcessing... (attempt ",
                     ToString(attempt), "/", ToString(maxAttempts), ")">>]

\* await base(table).update(recordId, {status: `Generating... ${elapsed}s elapsed`, ...})
UpdateProgress ==
    /\ pc = "updateProgress"
    /\ \E ok \in UpdateOutcomes(recordId) :
          /\ AirtableUpdate(recordId, ProgressFields, "Progress", ok)
          /\ IF ok
             THEN /\ pc' = "poll"
                  /\ error' = error
             ELSE Throw(<<"update failed">>)
    /\ UNCHANGED <<variant, body, response, recordId, inputImage, inputVideo,
                   prompt, mode, resolution, seed, submitPayload, jobId,
                   attempt, completed, elapsed, result, videoUrl,
                   submitResponse, lastPoll,
                   pollsAtTerminal>>

\* What a status check can come back with: the fetch rejects, the body is
\* not JSON, or a body {data?: {status, outputs?, error?}}.
PollBody(st, outs, err) == [status |-> st, outputs |-> outs, error |-> err]

PollBodies ==
    {PollBody(Undef, NoAttachments, Undef),
     PollBody(Str("processing"), NoAttachments, Undef),
     PollBody(Str("completed"), NoAttachments, Undef),
     PollBody(Str("completed"), Attachments(<<>>), Undef),
     PollBody(Str("completed"), Attachments(<<OutUrl>>), Undef),
     PollBody(Str("completed"), Attachments(<<OutUrl, OutUrl2>>), Undef),
     PollBody(Str("failed"), NoAttachments, Undef),
     PollBody(Str("failed"), NoAttachments, Str("")),
     PollBody(Str("failed"), Attachments(<<>>), Str("CUDA out of memory"))}

PollFailures == {"transport", "badjson"}

\* Mutant of FailureMessage: the remote error text is dropped.
FailureMessage_Generic(r) == <<"Generation failed: ", "Unknown error">>

\* `Generation failed: ${result.data?.error || 'Unknown error'}`
FailureMessage(r) ==
    <<"Generation failed: ", Interp(OrElse(r.error, Str("Unknown error")))>>

\* Mutant of HandleResult: the completed flag is not set.
HandleResult_NoFlag(r) ==
    /\ result' = r
    /\ IF r.status = Str("completed")
       THEN /\ completed' = completed
            /\ videoUrl' = FirstOutput(r.outputs)
            /\ IF ~Truthy(videoUrl')
               THEN Throw(<<"No video URL in completed response">>)
               ELSE /\ pc' = IF variant = "server" THEN "download" ELSE "updateCompleted"
                    /\ error' = error
       ELSE IF r.status = Str("failed")
       THEN /\ Throw(<<"Generation failed: ", Interp(OrElse(r.error, Str("Unknown error")))>>)
            /\ UNCHANGED <<completed, videoUrl>>
       ELSE /\ pc' = "while"
            /\ UNCHANGED <<completed, videoUrl, error>>

\* Mutant of HandleResult: the first output is not checked.
HandleResult_NoUrlCheck(r) ==
    /\ result' = r
    /\ IF r.status = Str("completed")
       THEN /\ completed' = TRUE
            /\ videoUrl' = FirstOutput(r.outputs)
            /\ pc' = IF variant = "server" THEN "download" ELSE "updateCompleted"
            /\ error' = error
       ELSE IF r.status = Str("failed")
       THEN /\ Throw(<<"Generation failed: ", Interp(OrElse(r.error, Str("Unknown error")))>>)
            /\ UNCHANGED <<completed, videoUrl>>
       ELSE /\ pc' = "while"
            /\ UNCHANGED <<completed, videoUrl, error>>

\* The synchronous code after `const result = await resultResponse.json()'.
HandleResult(r) ==
    /\ result' = r
    /\ IF r.status = Str("completed")
       THEN /\ completed' = TRUE
            /\ videoUrl' = FirstOutput(r.outputs)
            /\ IF ~Truthy(videoUrl')
               THEN Throw(<<"No video URL in completed response">>)
               ELSE /\ pc' = IF variant = "server" THEN "download" ELSE "updateCompleted"
                    /\ error' = error
       ELSE IF r.status = Str("failed")
       THEN /\ Throw(FailureMessage(r))
            /\ UNCHANGED <<completed, videoUrl>>
       ELSE /\ pc' = "while"
            /\ UNCHANGED <<completed, videoUrl, error>>

\* Mutant of Poll: a status check that fails in transport is treated as
\* still in progress.
Poll_RetryOnTransport ==
    /\ pc = "poll"
    /\ calls' = Bump(calls, "poll")
    /\ \/ \E f \in PollFailures :
             /\ pc' = "while"
             /\ lastPoll' = f
             /\ UNCHANGED <<result, completed, videoUrl, error, pollsAtTerminal>>
       \/ \E r \in PollBodies :
             /\ HandleResult(r)
             /\ lastPoll' = IF r.status \in {Str("completed"), Str("failed")}
                            THEN r.status.s ELSE "pending"
             /\ pollsAtTerminal' = IF pollsAtTerminal = 0 /\ lastPoll' # "pending"
                                   THEN calls'.poll ELSE pollsAtTerminal
    /\ UNCHANGED <<variant, body, response, store, recordId, inputImage, inputVideo,
                   prompt, mode, resolution, seed, submitPayload, jobId,
                   attempt, elapsed, updates, lastUpdate, jobIdWritten,
                   outputWrites, submitResponse>>

Poll ==
    /\ pc = "poll"
    /\ calls' = Bump(calls, "poll")
    /\ \/ \E f \in PollFailures :
             /\ Throw(IF f = "transport" THEN <<"fetch failed">> ELSE <<"invalid json">>)
             /\ lastPoll' = f
             /\ UNCHANGED <<result, completed, videoUrl, pollsAtTerminal>>
       \/ \E r \in PollBodies :
             /\ HandleResult(r)
             /\ lastPoll' = IF r.status \in {Str("completed"), Str("failed")}
                            THEN r.status.s ELSE "pending"
             /\ pollsAtTerminal' = IF pollsAtTerminal = 0 /\ lastPoll' # "pending"
                                   THEN calls'.poll ELSE pollsAtTerminal
    /\ UNCHANGED <<variant, body, response, store, recordId, inputImage, inputVideo,
                   prompt, mode, resolution, seed, submitPayload, jobId,
                   attempt, elapsed, updates, lastUpdate, jobIdWritten,
                   outputWrites, submitResponse>>

\* server.js:164-166: await fetch(videoUrl); await videoResponse.arrayBuffer()
Download ==
    /\ pc = "download"
    /\ calls' = Bump(calls, "download")
    /\ \E ok \in BOOLEAN :
          IF ok
          THEN /\ pc' = "updateCompleted"
               /\ error' = error
          ELSE Throw(<<"fetch failed">>)
    /\ UNCHANGED <<variant, body, response, store, recordId, inputImage, inputVideo,
                   prompt, mode, resolution, seed, submitPayload, jobId,
                   attempt, completed, elapsed, result, videoUrl,
                   updates, lastUpdate, jobIdWritten, outputWrites,
                   submitResponse, lastPoll,
                   pollsAtTerminal>>

\* output_video: [{url: videoUrl}] (server.js:170) or videoUrl (part_000:177)
OutputValue(v, u) ==
    IF v = "server" THEN [form |-> "attachments", url |-> u.s]
    ELSE [form |-> "url", url |-> u.s]

CompletedFields ==
    [output_video |-> OutputValue(variant, videoUrl),
     status       |-> <<"Completed">>,
     error_log    |-> <<"Completed at ", Now, "\nTotal time: ", ToString(elapsed),
                        "s\nVideo: ", Interp(videoUrl)>>]

UpdateCompleted ==
    /\ pc = "updateCompleted"
    /\ \E ok \in UpdateOutcomes(recordId) :
          /\ AirtableUpdate(recordId, CompletedFields, "Completed", ok)
          /\ IF ok
             THEN /\ pc' = "while"
                  /\ error' = error
             ELSE Throw(<<"update failed">>)
    /\ UNCHANGED <<variant, body, response, recordId, inputImage, inputVideo,
                   prompt, mode, resolution, seed, submitPayload, jobId,
                   attempt, completed, elapsed, result, videoUrl,
                   submitResponse, lastPoll,
                   pollsAtTerminal>>

(***************************************************************************)
(* Failure path: lines 189-202 of server.js, 194-207 of part_000.          *)
(***************************************************************************)
FailedFields ==
    [status    |-> <<"Failed">>,
     error_log |-> <<"Error: ">> \o error \o <<"\nTime: ", Now>>]

\* Mutant of CatchError: the write of "Failed" is repeated until it succeeds.
CatchError_Retry ==
    /\ pc = "catch"
    /\ \E ok \in UpdateOutcomes(recordId) :
          /\ AirtableUpdate(recordId, FailedFields, "Failed", ok)
          /\ pc' = IF ok THEN "done" ELSE "catch"
    /\ UNCHANGED <<variant, body, response, recordId, inputImage, inputVideo,
                   prompt, mode, resolution, seed, submitPayload, jobId,
                   attempt, completed, elapsed, result, videoUrl, error,
                   submitResponse, lastPoll, pollsAtTerminal>>

CatchError ==
    /\ pc = "catch"
    /\ \E ok \in UpdateOutcomes(recordId) :
          AirtableUpdate(recordId, FailedFields, "Failed", ok)
    /\ pc' = "done"
    /\ UNCHANGED <<variant, body, response, recordId, inputImage, inputVideo,
                   prompt, mode, resolution, seed, submitPayload, jobId,
                   attempt, completed, elapsed, result, videoUrl, error,
                   submitResponse, lastPoll,
                   pollsAtTerminal>>

\* A step of the running invocation: the suspended one is left alone, and
\* the shadow record takes the step's update when it succeeded.
Step(A) ==
    /\ A
    /\ parked' = parked
    /\ shadow' = IF calls'.update > calls.update /\ lastUpdate'.ok
                 THEN Merge(shadow, lastUpdate'.fields)
                 ELSE shadow

Next ==
    \/ Step(Trigger)
    \/ Step(FetchRecord)
    \/ Step(UpdateGenerating)
    \/ Step(Submit)
    \/ Step(UpdateJobId)
    \/ Step(Sleep)
    \/ Step(LoopExit)
    \/ Step(UpdateProgress)
    \/ Step(Poll)
    \/ Step(Download)
    \/ Step(UpdateCompleted)
    \/ Step(CatchError)

Spec == Init /\ [][Next]_vars

(***************************************************************************)
(* Vocabulary of the properties.                                           *)
(***************************************************************************)
\* The record the run of the model is triggered for.
Rec == store["recA"]

AnyCall == \E k \in CallKinds : calls[k] > 0

Issued(kind) == \E i \in DOMAIN updates : updates[i][1] = kind

HasAttachment(att) == att.present /\ att.urls # <<>>

\* text is a sequence of pieces; a piece is contained when it occurs in it.
Contains(text, piece) == piece = "" \/ \E i \in DOMAIN text : text[i] = piece

\* The last update call issued is the write of status = "Failed".
FailedAttempted ==
    /\ "status" \in DOMAIN lastUpdate.fields
    /\ lastUpdate.fields.status = <<"Failed">>
    /\ lastUpdate.id = recordId

\* The run has ended on the failure path, and the record says so when the
\* final write succeeded.
EndsFailed ==
    pc = "done" =>
        /\ FailedAttempted
        /\ lastUpdate.ok => Rec.status = <<"Failed">>

TimeoutMessage == <<"Timeout: Animation generation took too long">>

(***************************************************************************)
(* C1: no poll request is issued unless the update that carries job_id     *)
(* (with status "Processing...") has returned successfully after a         *)
(* successful submission; the record then holds the job id returned.       *)
(***************************************************************************)
C1_JobIdWrittenBeforePoll ==
    (calls.poll > 0 \/ pc = "poll") =>
        /\ jobIdWritten
        /\ \E i \in DOMAIN updates : updates[i] = <<"Processing", TRUE>>
        /\ submitResponse.kind = "body" /\ submitResponse.ok
        /\ Truthy(jobId) => Rec.job_id = jobId

C1_Witness ==
    /\ calls.poll > 0
    /\ jobIdWritten
    /\ Rec.job_id = Str("job1")

(***************************************************************************)
(* C2: a trigger with a recordId is acknowledged with 200 before any       *)
(* record-store or generation-API call; a trigger without one gets 400     *)
(* and no call is ever made for it.                                        *)
(***************************************************************************)
C2_AckBeforeCalls ==
    /\ Truthy(body) => (pc # "idle" => response = 200) /\ (AnyCall => response = 200)
    /\ ~Truthy(body) => (pc # "idle" => response = 400 /\ pc = "rejected") /\ ~AnyCall

C2_Witness ==
    /\ Truthy(body)
    /\ response = 200
    /\ calls.find = 1
    /\ calls.update > 0

(***************************************************************************)
(* C3: for a record that lacks input_image or input_video no submission    *)
(* call is made and the run ends with status "Failed" when the final       *)
(* write succeeds.                                                         *)
(***************************************************************************)
LacksInput == ~HasAttachment(Rec.input_image) \/ ~HasAttachment(Rec.input_video)

C3_MissingInputFails ==
    (body = Str("recA") /\ LacksInput) =>
        /\ calls.submit = 0
        /\ pc \in {"idle", "find", "catch", "done"}
        /\ EndsFailed

C3_Witness ==
    /\ body = Str("recA")
    /\ HasAttachment(Rec.input_image)
    /\ ~HasAttachment(Rec.input_video)
    /\ pc = "done"
    /\ error = <<"No input video found">>
    /\ Rec.status = <<"Failed">>

(***************************************************************************)
(* C4: when the submission call returns an HTTP non-success or a body code *)
(* other than 200, job_id is never written, no poll request is issued and  *)
(* the run ends with status "Failed" when the final write succeeds.        *)
(***************************************************************************)
NonSuccess ==
    /\ submitResponse.kind = "body"
    /\ ~submitResponse.ok \/ submitResponse.code # Num(200)

C4_NonSuccessFails ==
    NonSuccess =>
        /\ calls.poll = 0
        /\ ~Issued("Processing")
        /\ ~jobIdWritten
        /\ Rec.job_id = Undef
        /\ pc \in {"catch", "done"}
        /\ EndsFailed

C4_Witness ==
    /\ submitResponse.kind = "body"
    /\ submitResponse.ok
    /\ submitResponse.code = Num(400)
    /\ submitResponse.id = Str("job1")
    /\ pc = "done"
    /\ Rec.status = <<"Failed">>

(***************************************************************************)
(* C5: at most 120 status checks are issued, each preceded by a sleep;     *)
(* after a 120th check that returned a non-terminal status the run raises  *)
(* the timeout error and ends with status "Failed" when the final write    *)
(* succeeds.                                                               *)
(***************************************************************************)
C5_BoundedPolling ==
    /\ calls.poll <= 120
    /\ calls.poll <= calls.sleep
    /\ pc = "poll" => calls.poll < calls.sleep
    /\ (calls.poll = 120 /\ lastPoll = "pending" /\ pc \in {"catch", "done"}) =>
          /\ error = TimeoutMessage
          /\ EndsFailed

C5_Witness ==
    /\ calls.poll = 120
    /\ calls.sleep = 120
    /\ lastPoll = "pending"
    /\ pc = "done"
    /\ Rec.status = <<"Failed">>

(***************************************************************************)
(* C6: when a status check returns "completed" with a non-empty outputs    *)
(* list, the run issues the write of output_video = the first output       *)
(* together with status "Completed", and no poll request follows that      *)
(* check.                                                                  *)
(***************************************************************************)
CompletedWithOutput ==
    /\ lastPoll = "completed"
    /\ HasAttachment(result.outputs)

C6_CompletedIsWritten ==
    CompletedWithOutput =>
        /\ calls.poll = pollsAtTerminal
        /\ pc = "done" =>
              \E i \in DOMAIN outputWrites :
                 /\ outputWrites[i].fields.output_video.url = result.outputs.urls[1]
                 /\ outputWrites[i].fields.status = <<"Completed">>

(***************************************************************************)
(* C7: when a status check returns "failed", no poll request follows it    *)
(* and the run ends with status "Failed" and an error_log that contains    *)
(* the remote error text, when the response carried one and the final      *)
(* write succeeds.                                                         *)
(***************************************************************************)
C7_RemoteFailureFails ==
    lastPoll = "failed" =>
        /\ calls.poll = pollsAtTerminal
        /\ pc \in {"catch", "done"}
        /\ EndsFailed
        /\ pc = "done" =>
              /\ result.error.t = "str" =>
                    Contains(lastUpdate.fields.error_log, result.error.s)
              /\ lastUpdate.ok => Rec.error_log = lastUpdate.fields.error_log

C7_Witness ==
    /\ lastPoll = "failed"
    /\ result.error = Str("CUDA out of memory")
    /\ pc = "done"
    /\ Rec.status = <<"Failed">>
    /\ Contains(Rec.error_log, "CUDA out of memory")

(***************************************************************************)
(* C8: a run that gets past fetch, validation and the pre-submit status    *)
(* write issues exactly one submission call, and no run issues more than   *)
(* one.                                                                    *)
(***************************************************************************)
PassedPreSubmit == Len(updates) >= 1 /\ updates[1] = <<"Generating", TRUE>>

C8_OneSubmission ==
    /\ calls.submit <= 1
    /\ (PassedPreSubmit /\ pc # "submit") => calls.submit = 1
    /\ ~PassedPreSubmit => calls.submit = 0

C8_Witness ==
    /\ pc = "done"
    /\ calls.submit = 1
    /\ error = TimeoutMessage

(***************************************************************************)
(* C9: output_video is written at most once, only by the update that       *)
(* records status "Completed" after a status check returned "completed"    *)
(* with an output; a run that takes the failure path leaves output_video   *)
(* unwritten.                                                              *)
(***************************************************************************)
C9_OutputWrittenOnceOnSuccess ==
    /\ Len(outputWrites) <= 1
    /\ \A i \in DOMAIN outputWrites :
          /\ outputWrites[i].fields.status = <<"Completed">>
          /\ CompletedWithOutput
          /\ outputWrites[i].fields.output_video.url = result.outputs.urls[1]
    /\ Rec.output_video # NoVideo =>
          /\ Len(outputWrites) = 1 /\ outputWrites[1].ok
          /\ Rec.output_video = outputWrites[1].fields.output_video
          /\ Rec.status = <<"Completed">>
    /\ (pc = "catch" \/ Issued("Failed")) => Rec.output_video = NoVideo
    /\ store["recB"] = OtherRecord

C9_Witness ==
    /\ pc = "done"
    /\ Len(outputWrites) = 1
    /\ Rec.output_video.url = OutUrl
    /\ Rec.status = <<"Completed">>
    /\ calls.poll > 1

(***************************************************************************)
(* C10: the submission payload has no prompt key when the record's prompt  *)
(* is empty or absent, has prompt equal to the record's prompt when it is  *)
(* non-empty, and always has the keys image, video, mode, resolution and   *)
(* seed.                                                                   *)
(***************************************************************************)
C10_PromptOmittedWhenEmpty ==
    calls.submit > 0 =>
        /\ {"image", "video", "mode", "resolution", "seed"} \subseteq DOMAIN submitPayload
        /\ Rec.prompt \in {Undef, Str("")} => "prompt" \notin DOMAIN submitPayload
        /\ Rec.prompt \notin {Undef, Str("")} =>
              /\ "prompt" \in DOMAIN submitPayload
              /\ submitPayload["prompt"] = Rec.prompt

C10_Witness ==
    /\ calls.submit > 0
    /\ Rec.prompt = Str("")
    /\ "prompt" \notin DOMAIN submitPayload
    /\ submitPayload["seed"] = Num(-1)

(***************************************************************************)
(* C11: on the success path the status writes of a run occur in the order  *)
(* "Generating..." (before the submission), "Processing..." with job_id    *)
(* (before the first poll), one "Generating... {elapsed}s elapsed" before  *)
(* each status check, and "Completed" with output_video last; a first      *)
(* check that returns completed is the only check.                         *)
(***************************************************************************)
SuccessOrder ==
    <<(<<"Generating", TRUE>>), (<<"Processing", TRUE>>),
      (<<"Progress", TRUE>>), (<<"Completed", TRUE>>)>>

Succeeded == pc = "done" /\ error = <<>>

C11_StatusOrderOnSuccess ==
    /\ pc = "submit" =>
          /\ updates = SubSeq(SuccessOrder, 1, 1)
          /\ calls.submit = 0
          /\ Rec.status = <<"Generating...">>
    /\ (pc = "while" /\ attempt = 0) =>
          /\ updates = SubSeq(SuccessOrder, 1, 2)
          /\ calls.poll = 0
          /\ Rec.status = <<"Processing...">>
    /\ pc = "poll" =>
          /\ updates = SubSeq(SuccessOrder, 1, 3)
          /\ calls.update = 2 + (calls.poll + 1)
          /\ Rec.status = <<"Generating... ", ToString(elapsed), "s elapsed">>
    /\ Succeeded =>
          /\ updates = SuccessOrder
          /\ calls.update = 2 + calls.poll + 1
          /\ Rec.status = <<"Completed">>
          /\ Rec.output_video.url = result.outputs.urls[1]
          /\ pollsAtTerminal = calls.poll
    /\ (Succeeded /\ pollsAtTerminal = 1) => calls.poll = 1

C11_Witness ==
    /\ Succeeded
    /\ calls.poll = 1
    /\ updates = SuccessOrder
    /\ Rec.job_id = Str("job1")
    /\ Rec.output_video.url = OutUrl

(***************************************************************************)
(* C12: a failed progress-update write inside a poll iteration does not    *)
(* abort the run: the status check of that iteration is still issued and   *)
(* the run ends only on a terminal status, a failed status check or the    *)
(* exhausted attempt budget.                                               *)
(***************************************************************************)
ProgressWriteFailed == \E i \in DOMAIN updates : updates[i] = <<"Progress", FALSE>>

C12_ProgressFailureNonFatal ==
    (ProgressWriteFailed /\ pc \in {"catch", "done"}) =>
        /\ calls.poll = attempt
        /\ \/ lastPoll \in {"completed", "failed", "transport", "badjson"}
           \/ calls.poll = 120

(***************************************************************************)
(* C13: a submission success response (HTTP ok, code 200) without a job id *)
(* makes the run fail: no job_id write, no poll request, status "Failed"   *)
(* when the final write succeeds.                                          *)
(***************************************************************************)
SuccessWithoutId ==
    /\ submitResponse.kind = "body"
    /\ submitResponse.ok
    /\ submitResponse.code = Num(200)
    /\ submitResponse.id = Undef

C13_MissingJobIdFails ==
    SuccessWithoutId =>
        /\ calls.poll = 0
        /\ ~Issued("Processing")
        /\ pc \in {"catch", "done"}
        /\ EndsFailed

(***************************************************************************)
(* C14: a status check that fails in transport is fatal: the run does not  *)
(* go back to the loop, no later poll request is issued, and the failure   *)
(* path writes status "Failed".                                            *)
(***************************************************************************)
C14_PollTransportFailureFatal ==
    lastPoll = "transport" =>
        /\ pc \in {"catch", "done"}
        /\ error = <<"fetch failed">>
        /\ calls.poll = attempt
        /\ ~Issued("Completed")
        /\ EndsFailed

C14_Witness ==
    /\ lastPoll = "transport"
    /\ calls.poll = 2
    /\ pc = "done"
    /\ Rec.status = <<"Failed">>

(***************************************************************************)
(* C15: a status check that returns "completed" without a first output URL *)
(* makes the run fail: output_video and "Completed" are never written, no  *)
(* poll request follows, and the run ends with status "Failed" when the    *)
(* final write succeeds.                                                   *)
(***************************************************************************)
C15_CompletedWithoutOutputFails ==
    (lastPoll = "completed" /\ ~HasAttachment(result.outputs)) =>
        /\ outputWrites = <<>>
        /\ ~Issued("Completed")
        /\ Rec.output_video = NoVideo
        /\ calls.poll = pollsAtTerminal
        /\ calls.download = 0
        /\ pc \in {"catch", "done"}
        /\ error = <<"No video URL in completed response">>
        /\ EndsFailed

C15_Witness ==
    /\ lastPoll = "completed"
    /\ result.outputs = Attachments(<<>>)
    /\ pc = "done"
    /\ Rec.status = <<"Failed">>

(***************************************************************************)
(* C16: every failure leads to exactly one attempted write of status       *)
(* "Failed", after which the run has ended: no further record-store write  *)
(* or generation-API call, no error escaping the handler; when that write  *)
(* fails the record keeps the status last written.                         *)
(***************************************************************************)
\* The kind of the last update call that succeeded, "none" when none did.
LastOkKind ==
    LET oks == {i \in DOMAIN updates : updates[i][2]} IN
    IF oks = {} THEN "none"
    ELSE updates[CHOOSE i \in oks : \A j \in oks : j <= i][1]

StatusOfKind(kind) ==
    CASE kind = "none"       -> Rec.status = <<>>
      [] kind = "Generating" -> Rec.status = <<"Generating...">>
      [] kind = "Processing" -> Rec.status = <<"Processing...">>
      [] kind = "Progress"   -> /\ Len(Rec.status) = 3
                                /\ Rec.status[1] = "Generating... "
                                /\ Rec.status[3] = "s elapsed"
      [] kind = "Completed"  -> Rec.status = <<"Completed">>
      [] kind = "Failed"     -> Rec.status = <<"Failed">>

C16_FailurePathFinal ==
    /\ error # <<>> => pc \in {"catch", "done"}
    /\ pc = "catch" => ~Issued("Failed")
    /\ (pc = "done" /\ error # <<>>) => Issued("Failed")
    /\ Issued("Failed") =>
          /\ pc = "done"
          /\ FailedAttempted
          /\ Cardinality({i \in DOMAIN updates : updates[i][1] = "Failed"}) = 1
          /\ updates[Len(updates)][1] = "Failed"
          /\ response = 200
    /\ pc = "done" => ~ENABLED Next
    /\ StatusOfKind(LastOkKind)

C16_Witness ==
    /\ pc = "done"
    /\ error = <<"update failed">>
    /\ lastUpdate.fields.status = <<"Failed">>
    /\ ~lastUpdate.ok
    /\ Rec.status = <<"Processing...">>

(***************************************************************************)
(* C18: the seed of the submission payload equals the record's seed for    *)
(* every integer seed the record supplies, 0 included, and is -1 only      *)
(* when the record has no seed.                                            *)
(***************************************************************************)
C18_SeedPassedThrough ==
    calls.submit > 0 =>
        /\ Rec.seed.t = "num" => submitPayload["seed"] = Rec.seed
        /\ submitPayload["seed"] = Num(-1) => Rec.seed = Undef

(***************************************************************************)
(* C20: once the write of status "Completed" has succeeded the run never   *)
(* writes "Failed" and makes no further record-store write or              *)
(* generation-API call; once the write of "Failed" has been attempted the  *)
(* run never writes "Completed".                                           *)
(***************************************************************************)
CompletedWritten == \E i \in DOMAIN updates : updates[i] = <<"Completed", TRUE>>

C20_OneTerminalStatus ==
    /\ CompletedWritten =>
          /\ ~Issued("Failed")
          /\ pc \in {"while", "done"}
          /\ error = <<>>
          /\ lastUpdate.fields.status = <<"Completed">>
          /\ updates[Len(updates)] = <<"Completed", TRUE>>
          /\ calls.update = 2 + calls.poll + 1
          /\ calls.poll = pollsAtTerminal
          /\ calls.sleep = calls.poll
          /\ Rec.status = <<"Completed">>
    /\ Issued("Failed") =>
          /\ updates[Len(updates)][1] = "Failed"
          /\ lastUpdate.fields.status = <<"Failed">>
          /\ ~CompletedWritten
          /\ Rec.status # <<"Completed">>

C20_Witness ==
    /\ CompletedWritten
    /\ pc = "done"
    /\ calls.poll = 3
    /\ Rec.status = <<"Completed">>

(***************************************************************************)
(* C17: every triggered run eventually ends (completion, failure or        *)
(* timeout), provided every external call eventually returns or fails:     *)
(* each step of the handler is the continuation of an awaited call, so     *)
(* the handler is weakly fair.                                             *)
(***************************************************************************)
FairSpec == Spec /\ WF_vars(Next)

Terminated == pc \in {"done", "rejected"}

C17_RunTerminates == <>Terminated

C17_Witness ==
    /\ pc = "done"
    /\ attempt = maxAttempts
    /\ completed
    /\ calls.sleep = maxAttempts

(***************************************************************************)
(* Concurrent runs.  Two invocations of the handler share the process and  *)
(* the record store; each has its own request, locals and position (the    *)
(* closure of the async handler).  One invocation runs between two awaits  *)
(* while the other is suspended in `parked'; Switch hands the thread over  *)
(* at an await, so every interleaving of the steps is a behaviour.         *)
(***************************************************************************)
ImageUrlB == "http://y/i.png"

VideoUrlB == "http://y/v.mp4"

\* Each run is followed for MaxConcAttempts poll iterations.
MaxConcAttempts == 2

\* The running invocation as a record.
Current ==
    [body |-> body, response |-> response, pc |-> pc, recordId |-> recordId,
     inputImage |-> inputImage, inputVideo |-> inputVideo, prompt |-> prompt,
     mode |-> mode, resolution |-> resolution, seed |-> seed,
     submitPayload |-> submitPayload, jobId |-> jobId, attempt |-> attempt,
     completed |-> completed, elapsed |-> elapsed, result |-> result,
     videoUrl |-> videoUrl, error |-> error, calls |-> calls,
     updates |-> updates, lastUpdate |-> lastUpdate,
     jobIdWritten |-> jobIdWritten, outputWrites |-> outputWrites,
     submitResponse |-> submitResponse, lastPoll |-> lastPoll,
     pollsAtTerminal |-> pollsAtTerminal, shadow |-> shadow]

\* An invocation that has just received a trigger for record id.
NewRun(id, rec) ==
    [body |-> Str(id), response |-> 0, pc |-> "idle", recordId |-> Undef,
     inputImage |-> Undef, inputVideo |-> Undef, prompt |-> Undef,
     mode |-> Undef, resolution |-> Undef, seed |-> Undef,
     submitPayload |-> NoPayload, jobId |-> Undef, attempt |-> 0,
     completed |-> FALSE, elapsed |-> 0, result |-> NoResult,
     videoUrl |-> Undef, error |-> <<>>, calls |-> [k \in CallKinds |-> 0],
     updates |-> <<>>, lastUpdate |-> NoUpdate,
     jobIdWritten |-> FALSE, outputWrites |-> <<>>,
     submitResponse |-> NoSubmit, lastPoll |-> "none",
     pollsAtTerminal |-> 0, shadow |-> rec]

RecordA ==
    FreshRecord(Attachments(<<ImageUrl>>), Attachments(<<VideoUrl>>),
                Str("dance"), <<Undef, Undef>>, Num(42))

RecordB ==
    FreshRecord(Attachments(<<ImageUrlB>>), Attachments(<<VideoUrlB>>),
                Undef, <<Str("move"), Str("720p")>>, Undef)

ConcInit ==
    /\ variant \in {"server", "part_000"}
    /\ store = [id \in RecordIds |-> IF id = "recA" THEN RecordA ELSE RecordB]
    /\ LET r == NewRun("recA", RecordA) IN
       /\ body = r.body
       /\ response = r.response
       /\ pc = r.pc
       /\ recordId = r.recordId
       /\ inputImage = r.inputImage
       /\ inputVideo = r.inputVideo
       /\ prompt = r.prompt
       /\ mode = r.mode
       /\ resolution = r.resolution
       /\ seed = r.seed
       /\ submitPayload = r.submitPayload
       /\ jobId = r.jobId
       /\ attempt = r.attempt
       /\ completed = r.completed
       /\ elapsed = r.elapsed
       /\ result = r.result
       /\ videoUrl = r.videoUrl
       /\ error = r.error
       /\ calls = r.calls
       /\ updates = r.updates
       /\ lastUpdate = r.lastUpdate
       /\ jobIdWritten = r.jobIdWritten
       /\ outputWrites = r.outputWrites
       /\ submitResponse = r.submitResponse
       /\ lastPoll = r.lastPoll
       /\ pollsAtTerminal = r.pollsAtTerminal
       /\ shadow = r.shadow
    /\ parked = NewRun("recB", RecordB)

\* Mutant of Switch: recordId is a variable of the module, shared by the
\* invocations, instead of a const of the handler's closure.
Switch_SharedRecordId ==
    /\ parked.pc \notin {"none", "done", "rejected"}
    /\ parked' = Current
    /\ body' = parked.body
    /\ response' = parked.response
    /\ pc' = parked.pc
    /\ recordId' = recordId
    /\ inputImage' = parked.inputImage
    /\ inputVideo' = parked.inputVideo
    /\ prompt' = parked.prompt
    /\ mode' = parked.mode
    /\ resolution' = parked.resolution
    /\ seed' = parked.seed
    /\ submitPayload' = parked.submitPayload
    /\ jobId' = parked.jobId
    /\ attempt' = parked.attempt
    /\ completed' = parked.completed
    /\ elapsed' = parked.elapsed
    /\ result' = parked.result
    /\ videoUrl' = parked.videoUrl
    /\ error' = parked.error
    /\ calls' = parked.calls
    /\ updates' = parked.updates
    /\ lastUpdate' = parked.lastUpdate
    /\ jobIdWritten' = parked.jobIdWritten
    /\ outputWrites' = parked.outputWrites
    /\ submitResponse' = parked.submitResponse
    /\ lastPoll' = parked.lastPoll
    /\ pollsAtTerminal' = parked.pollsAtTerminal
    /\ shadow' = parked.shadow
    /\ UNCHANGED <<variant, store>>

\* The running invocation is suspended at its await and the other resumes.
Switch ==
    /\ parked.pc \notin {"none", "done", "rejected"}
    /\ parked' = Current
    /\ body' = parked.body
    /\ response' = parked.response
    /\ pc' = parked.pc
    /\ recordId' = parked.recordId
    /\ inputImage' = parked.inputImage
    /\ inputVideo' = parked.inputVideo
    /\ prompt' = parked.prompt
    /\ mode' = parked.mode
    /\ resolution' = parked.resolution
    /\ seed' = parked.seed
    /\ submitPayload' = parked.submitPayload
    /\ jobId' = parked.jobId
    /\ attempt' = parked.attempt
    /\ completed' = parked.completed
    /\ elapsed' = parked.elapsed
    /\ result' = parked.result
    /\ videoUrl' = parked.videoUrl
    /\ error' = parked.error
    /\ calls' = parked.calls
    /\ updates' = parked.updates
    /\ lastUpdate' = parked.lastUpdate
    /\ jobIdWritten' = parked.jobIdWritten
    /\ outputWrites' = parked.outputWrites
    /\ submitResponse' = parked.submitResponse
    /\ lastPoll' = parked.lastPoll
    /\ pollsAtTerminal' = parked.pollsAtTerminal
    /\ shadow' = parked.shadow
    /\ UNCHANGED <<variant, store>>

\* The responses of the generation API the concurrent runs are followed
\* under: one of each kind the handler tells apart.
ConcSubmitResponses ==
    {r \in SubmitResponses :
        \/ r.kind = "transport"
        \/ r.kind = "body" /\ ~r.ok /\ r.code = Num(400) /\ r.message # Undef
                           /\ r.data = "absent"
        \/ r.kind = "body" /\ r.ok /\ r.code = Num(200) /\ r.data = "present"}

ConcPollBodies ==
    {PollBody(Str("processing"), NoAttachments, Undef),
     PollBody(Str("completed"), Attachments(<<OutUrl>>), Undef),
     PollBody(Str("completed"), Attachments(<<>>), Undef),
     PollBody(Str("failed"), Attachments(<<>>), Str("CUDA out of memory"))}

\* A step of the running invocation within the iterations followed.
ConcStep(A) ==
    /\ Step(A)
    /\ attempt' <= MaxConcAttempts
    /\ elapsed' = SleepSeconds * attempt'
    /\ submitResponse' \in ConcSubmitResponses \cup {NoSubmit}
    /\ result' \in ConcPollBodies \cup {NoResult}

ConcNext ==
    \/ ConcStep(Trigger)
    \/ ConcStep(FetchRecord)
    \/ ConcStep(UpdateGenerating)
    \/ ConcStep(Submit)
    \/ ConcStep(UpdateJobId)
    \/ ConcStep(Sleep)
    \/ ConcStep(LoopExit)
    \/ ConcStep(UpdateProgress)
    \/ ConcStep(Poll)
    \/ ConcStep(Download)
    \/ ConcStep(UpdateCompleted)
    \/ ConcStep(CatchError)
    \/ Switch

ConcSpec == ConcInit /\ [][ConcNext]_vars

(***************************************************************************)
(* C19: runs for distinct record identifiers do not interfere: in every    *)
(* interleaving each run reads and writes only its own record, polls only  *)
(* for the job id its own submission returned, and its record holds what   *)
(* the run's own updates alone would have left in it.                      *)
(***************************************************************************)
\* The record-store calls of run c carry the identifier of its trigger.
OwnTarget(c) ==
    /\ c.recordId \in {Undef, c.body}
    /\ c.calls.update > 0 => c.lastUpdate.id = c.body

\* What run c has read comes from its own record.
OwnRead(c) ==
    /\ Truthy(c.inputImage) => c.inputImage = FirstUrl(store[c.body.s].input_image)
    /\ Truthy(c.inputVideo) => c.inputVideo = FirstUrl(store[c.body.s].input_video)
    /\ c.calls.submit > 0 =>
          /\ c.submitPayload["image"] = FirstUrl(store[c.body.s].input_image)
          /\ c.submitPayload["video"] = FirstUrl(store[c.body.s].input_video)

\* Run c polls for the job id of its own submission.
OwnJob(c) ==
    (c.calls.poll > 0 \/ c.pc = "poll") =>
        /\ c.jobId = c.submitResponse.id
        /\ Truthy(c.jobId) => store[c.body.s].job_id = c.jobId

\* The record of run c is as if the run had executed alone.
AsIfAlone(c) == store[c.body.s] = c.shadow

C19_RunsDoNotInterfere ==
    \A c \in {Current, parked} :
        OwnTarget(c) /\ OwnRead(c) /\ OwnJob(c) /\ AsIfAlone(c)

C19_Witness ==
    /\ pc = "done" /\ parked.pc = "done"
    /\ body # parked.body
    /\ Truthy(jobId) /\ Truthy(parked.jobId) /\ jobId # parked.jobId
    /\ calls.poll = 2 /\ parked.calls.poll = 1
    /\ store[body.s].status = <<"Completed">>
    /\ store[parked.body.s].status = <<"Failed">>
    /\ store[body.s].job_id = jobId
    /\ store[parked.body.s].job_id = parked.jobId

====
